---- MODULE Spec2Model ----
(***************************************************************************)
(* Model of the dependency-scanning demo server (src/app.py): a Flask     *)
(* application with five routes, each a thin wrapper around one library   *)
(* call.  Texts are sequences of string tokens; the literal pieces of the *)
(* handlers' f-strings are single tokens, fetched bodies are sequences of *)
(* one-character tokens so that slicing is character slicing.             *)
(***************************************************************************)
EXTENDS Integers, Sequences, FiniteSets, TLC

(* ------------------------------ bounds -------------------------------- *)
\* number of requests the clients issue in one behaviour
NumRequests == 2
\* length of the longest fetched body (one more than the slice length)
MaxBodyLen == 201

(* ------------------------- program constants -------------------------- *)
\* response.text[:200]
SliceLen == 200
\* requests.get(url, timeout=5)
timeout == 5

Requests == 1..NumRequests

Min(a, b) == IF a < b THEN a ELSE b

(* ------------------------------ texts --------------------------------- *)
StartsWith(t, p) == Len(t) >= Len(p) /\ SubSeq(t, 1, Len(p)) = p

Contains(t, tok) == \E i \in 1..Len(t) : t[i] = tok

\* the index of the first occurrence of tok in t, 0 when there is none
RECURSIVE IndexFrom(_, _, _)
IndexFrom(t, tok, i) ==
    IF i > Len(t) THEN 0
    ELSE IF t[i] = tok THEN i
    ELSE IndexFrom(t, tok, i + 1)

IndexOf(t, tok) == IndexFrom(t, tok, 1)

\* the text after the first occurrence of the marker token
After(t, tok) == SubSeq(t, IndexOf(t, tok) + 1, Len(t))

(* ---------------------- request.args.get(name, default) --------------- *)
\* as ArgsGet, with the default forgotten
ArgsGet_without_default(args, name, default) ==
    IF \E p \in args : p[1] = name
    THEN (CHOOSE p \in args : p[1] = name)[2]
    ELSE <<>>

\* the query string is a set of <<name, value>> pairs, one per name
ArgsGet(args, name, default) ==
    IF \E p \in args : p[1] = name
    THEN (CHOOSE p \in args : p[1] = name)[2]
    ELSE default

(* ------------------------- handler results ---------------------------- *)
Return(body, g) == [raised |-> FALSE, body |-> body, exc |-> "", g |-> g]
Raise(cls, g) == [raised |-> TRUE, body |-> <<>>, exc |-> cls, g |-> g]

\* Python's exception hierarchy for the classes the libraries raise:
\* all of them derive from Exception
LibraryExceptions ==
    {"TemplateSyntaxError", "ZeroDivisionError",
     "ParserError", "ConstructorError",
     "MissingSchema", "ConnectionError", "ConnectTimeout", "ReadTimeout"}

IsException(cls) == cls \in LibraryExceptions

\* str(e): the message of the failure
ExcMessage(cls) == cls

(* ----------------- the template engine (Jinja via Flask) -------------- *)
Digits == {"0", "1", "7"}
DigitValue(d) == IF d = "0" THEN 0 ELSE IF d = "1" THEN 1 ELSE 7

\* the value of the expression between the delimiters: a number, or a
\* product or floor division of two numbers
EvalExpr(e) ==
    IF Len(e) = 1 /\ e[1] \in Digits
    THEN [raised |-> FALSE, out |-> <<e[1]>>, exc |-> ""]
    ELSE IF Len(e) = 3 /\ e[1] \in Digits /\ e[3] \in Digits /\ e[2] = "*"
    THEN [raised |-> FALSE,
          out |-> <<ToString(DigitValue(e[1]) * DigitValue(e[3]))>>,
          exc |-> ""]
    ELSE IF Len(e) = 3 /\ e[1] \in Digits /\ e[3] \in Digits /\ e[2] = "//"
    THEN IF DigitValue(e[3]) = 0
         THEN [raised |-> TRUE, out |-> <<>>, exc |-> "ZeroDivisionError"]
         ELSE [raised |-> FALSE,
               out |-> <<ToString(DigitValue(e[1]) \div DigitValue(e[3]))>>,
               exc |-> ""]
    ELSE [raised |-> TRUE, out |-> <<>>, exc |-> "TemplateSyntaxError"]

\* the lexer drops one trailing newline of the source
\* (keep_trailing_newline is off)
StripTrailingNewline(src) ==
    IF Len(src) > 0 /\ src[Len(src)] = "\n"
    THEN SubSeq(src, 1, Len(src) - 1)
    ELSE src

\* data outside the delimiters is copied, an expression is replaced by its
\* value, an unclosed expression is a syntax error
RECURSIVE RenderFrom(_)
RenderFrom(src) ==
    IF src = <<>> THEN [raised |-> FALSE, out |-> <<>>, exc |-> ""]
    ELSE IF Head(src) = "{{"
    THEN LET close == IndexOf(src, "}}")
         IN  IF close = 0
             THEN [raised |-> TRUE, out |-> <<>>,
                   exc |-> "TemplateSyntaxError"]
             ELSE LET v == EvalExpr(SubSeq(src, 2, close - 1))
                      rest == RenderFrom(SubSeq(src, close + 1, Len(src)))
                  IN  IF v.raised THEN v
                      ELSE IF rest.raised THEN rest
                      ELSE [raised |-> FALSE, out |-> v.out \o rest.out,
                            exc |-> ""]
    ELSE LET rest == RenderFrom(Tail(src))
         IN  IF rest.raised THEN rest
             ELSE [raised |-> FALSE, out |-> <<Head(src)>> \o rest.out,
                   exc |-> ""]

render_template_string(source) == RenderFrom(StripTrailingNewline(source))

HasDelimiter(t) == Contains(t, "{{")

(* --------------------- the YAML loader (yaml.load) -------------------- *)
\* str() of the parsed value, as the f-string formats it
Quoted(w) == <<"'", w, "'">>

\* a flow sequence [a, b, ...]: the items between the brackets
RECURSIVE ReprItems(_)
ReprItems(items) ==
    IF items = <<>> THEN <<>>
    ELSE IF Len(items) = 1 THEN Quoted(items[1])
    ELSE Quoted(items[1]) \o <<", ">> \o ReprItems(SubSeq(items, 3, Len(items)))

YamlWords == {"message", "Hello", "a", "b"}

\* items alternate with commas
RECURSIVE WellFormedItems(_)
WellFormedItems(items) ==
    \/ items = <<>>
    \/ Len(items) = 1 /\ items[1] \in YamlWords
    \/ /\ Len(items) >= 3
       /\ items[1] \in YamlWords
       /\ items[2] = ","
       /\ WellFormedItems(SubSeq(items, 3, Len(items)))

\* the result of loading and formatting the document
yaml_load(data) ==
    IF data = <<>>
    THEN [raised |-> FALSE, out |-> <<"None">>, exc |-> ""]
    ELSE IF Head(data) = "!!python/object/new:"
    THEN [raised |-> TRUE, out |-> <<>>, exc |-> "ConstructorError"]
    ELSE IF Head(data) = "["
    THEN IF /\ data[Len(data)] = "]"
            /\ Len(data) >= 2
            /\ WellFormedItems(SubSeq(data, 2, Len(data) - 1))
         THEN [raised |-> FALSE,
               out |-> <<"[">> \o ReprItems(SubSeq(data, 2, Len(data) - 1))
                       \o <<"]">>,
               exc |-> ""]
         ELSE [raised |-> TRUE, out |-> <<>>, exc |-> "ParserError"]
    ELSE IF Len(data) = 4 /\ data[2] = ":" /\ data[3] = " "
            /\ data[1] \in YamlWords /\ data[4] \in YamlWords
    THEN [raised |-> FALSE,
          out |-> <<"{">> \o Quoted(data[1]) \o <<": ">> \o Quoted(data[4])
                  \o <<"}">>,
          exc |-> ""]
    ELSE IF Len(data) = 1 /\ data[1] \in YamlWords
    THEN [raised |-> FALSE, out |-> data, exc |-> ""]
    ELSE [raised |-> TRUE, out |-> <<>>, exc |-> "ParserError"]

(* ------------------ the HTTP client (requests.get) -------------------- *)
DefaultUrl == <<"https://", "httpbin.org", "/get">>
InternalUrl == <<"http://", "10.0.0.1", "/admin">>
BlackholeUrl == <<"http://", "10.255.255.1", "/">>
NoSchemeUrl == <<"httpbin.org", "/get">>

HasScheme(url) == Len(url) > 0 /\ url[1] \in {"http://", "https://"}

\* hosts that answer, and hosts where the connection attempt gets no answer
Reachable(url) == HasScheme(url) /\ Len(url) >= 2
                  /\ url[2] \in {"httpbin.org", "10.0.0.1"}

\* the body of a reply: n characters, cycling through three letters
Char(i) == IF i % 3 = 0 THEN "x" ELSE IF i % 3 = 1 THEN "y" ELSE "z"
MkBody(n) == [i \in 1..n |-> Char(i)]
BodyLens == {0, MaxBodyLen}
StatusCodes == {200, 404}

Reply(code, text) == [raised |-> FALSE, status_code |-> code, text |-> text,
                      exc |-> ""]
Failure(cls) == [raised |-> TRUE, status_code |-> 0, text |-> <<>>,
                 exc |-> cls]

\* what the prepared request raises before anything is sent
PrepareFails(url) == ~HasScheme(url)

\* a wait with a timeout can end by it
TimesOut(cls) == IF timeout > 0 THEN {Failure(cls)} ELSE {}

\* as requests_get_outcomes, called without a timeout
requests_get_outcomes_without_timeout(url) ==
    IF Reachable(url)
    THEN {Reply(c, MkBody(n)) : c \in StatusCodes, n \in BodyLens}
         \cup {Failure("ConnectionError")}
    ELSE {}

\* how the outbound GET can end once it is sent: the timeout bounds the
\* wait for the connection and for the reply
requests_get_outcomes(url) ==
    IF Reachable(url)
    THEN {Reply(c, MkBody(n)) : c \in StatusCodes, n \in BodyLens}
         \cup {Failure("ConnectionError")} \cup TimesOut("ReadTimeout")
    ELSE TimesOut("ConnectTimeout")

(* ------------------ the cipher (cryptography.fernet) ------------------ *)
\* os.urandom: the n-th draw from the entropy source, never drawn before
urandom(n) == ToString(<<"random", n>>)

\* Fernet.generate_key() draws the key, encrypt() draws the IV
generate_key(n) == urandom(n)

\* message.encode()
encode(message) == ToString(<<"utf-8", message>>)

\* cipher.encrypt(data).decode(): the token as text
fernet_encrypt(key, iv, data) == ToString(<<"fernet", key, iv, data>>)

(* ------------------------------ routes -------------------------------- *)
Routes == {"/", "/template", "/yaml", "/fetch", "/encrypt"}

\* the anchor tag that links to a route
Link(route) ==
    CASE route = "/template" -> "<a href=\"/template\">"
      [] route = "/yaml" -> "<a href=\"/yaml\">"
      [] route = "/fetch" -> "<a href=\"/fetch\">"
      [] route = "/encrypt" -> "<a href=\"/encrypt\">"
      [] OTHER -> "<a href=\"/\">"

HomeHtml ==
    <<"<h1>Dependency Scanning Demo</h1>",
      "<p>This app uses intentionally vulnerable dependencies.</p>",
      "<ul>",
      "<li>Flask 2.0.1 - Has known vulnerabilities</li>",
      "<li>Jinja2 2.11.3 - Template injection vulnerability</li>",
      "<li>Pillow 8.1.2 - Multiple CVEs</li>",
      "<li>PyYAML 5.3.1 - Arbitrary code execution</li>",
      "<li>cryptography 3.3.2 - Security vulnerabilities</li>",
      "<li>Django 2.2.0 - Multiple critical CVEs</li>",
      "</ul>",
      "<p>", Link("/template"), "Test Template Rendering", "</a>", "</p>",
      "<p>", Link("/yaml"), "Test YAML Parsing", "</a>", "</p>",
      "<p>", Link("/fetch"), "Test HTTP Request", "</a>", "</p>">>

DefaultTemplate == <<"Hello, World!">>
DefaultData == <<"message", ":", " ", "Hello">>
DefaultMessage == <<"Secret data">>

(* ----------------------------- handlers ------------------------------- *)
\* each handler yields its return value or the exception it lets through,
\* and the module-level state it leaves behind
\* as home, with a hit counter kept at module level
home_with_counter(args, g) ==
    LET hits == IF "hits" \in DOMAIN g THEN g.hits + 1 ELSE 1
    IN  Return(HomeHtml \o <<ToString(hits)>>,
               [url_map |-> g.url_map, hits |-> hits])

home(args, g) == Return(HomeHtml, g)

\* as template_test, with the failure caught as the other handlers do
template_test_caught(args, g) ==
    LET template == ArgsGet(args, "template", DefaultTemplate)
        r == render_template_string(template)
    IN  IF r.raised THEN Return(<<"Error: ", ExcMessage(r.exc)>>, g)
        ELSE Return(r.out, g)

\* as template_test, with the input returned as it came
template_test_literal(args, g) ==
    Return(ArgsGet(args, "template", DefaultTemplate), g)

template_test(args, g) ==
    LET template == ArgsGet(args, "template", DefaultTemplate)
        r == render_template_string(template)
    IN  IF r.raised THEN Raise(r.exc, g) ELSE Return(r.out, g)

\* as yaml_test, without the try block
yaml_test_uncaught(args, g) ==
    LET data == ArgsGet(args, "data", DefaultData)
        r == yaml_load(data)
    IN  IF r.raised THEN Raise(r.exc, g)
        ELSE Return(<<"Parsed YAML: ">> \o r.out, g)

yaml_test(args, g) ==
    LET data == ArgsGet(args, "data", DefaultData)
        r == yaml_load(data)
    IN  IF r.raised
        THEN IF IsException(r.exc)
             THEN Return(<<"Error: ", ExcMessage(r.exc)>>, g)
             ELSE Raise(r.exc, g)
        ELSE Return(<<"Parsed YAML: ">> \o r.out, g)

\* the first half of fetch_url: the URL the GET goes to
fetch_url_target(args) == ArgsGet(args, "url", DefaultUrl)

\* the second half of fetch_url: the outcome of the GET turned into text
\* as fetch_url, catching the timeouts only
fetch_url_timeouts_only(outcome, g) ==
    IF outcome.raised
    THEN IF outcome.exc \in {"ConnectTimeout", "ReadTimeout"}
         THEN Return(<<"Error: ", ExcMessage(outcome.exc)>>, g)
         ELSE Raise(outcome.exc, g)
    ELSE Return(<<"Status: ", ToString(outcome.status_code), "<br>Content: ">>
                \o SubSeq(outcome.text, 1, Min(SliceLen, Len(outcome.text))),
                g)

\* as fetch_url, with the slice one character too long
fetch_url_long_slice(outcome, g) ==
    IF outcome.raised
    THEN IF IsException(outcome.exc)
         THEN Return(<<"Error: ", ExcMessage(outcome.exc)>>, g)
         ELSE Raise(outcome.exc, g)
    ELSE Return(<<"Status: ", ToString(outcome.status_code), "<br>Content: ">>
                \o SubSeq(outcome.text, 1,
                          Min(SliceLen + 1, Len(outcome.text))),
                g)

fetch_url(outcome, g) ==
    IF outcome.raised
    THEN IF IsException(outcome.exc)
         THEN Return(<<"Error: ", ExcMessage(outcome.exc)>>, g)
         ELSE Raise(outcome.exc, g)
    ELSE Return(<<"Status: ", ToString(outcome.status_code), "<br>Content: ">>
                \o SubSeq(outcome.text, 1, Min(SliceLen, Len(outcome.text))),
                g)

\* as encrypt_test, with the key handed back next to the token
encrypt_test_with_key(args, key, iv, g) ==
    LET message == ArgsGet(args, "message", DefaultMessage)
        encrypted == fernet_encrypt(key, iv, encode(message))
    IN  Return(<<"Encrypted: ", encrypted, "<br>Key: ", key>>, g)

encrypt_test(args, key, iv, g) ==
    LET message == ArgsGet(args, "message", DefaultMessage)
        encrypted == fernet_encrypt(key, iv, encode(message))
    IN  Return(<<"Encrypted: ", encrypted>>, g)

\* the framework turns a return value into a 200 response and an exception
\* that leaves the handler into its error response
InternalServerError == <<"Internal Server Error">>

FlaskResponse(result) ==
    IF result.raised
    THEN [status |-> 500, body |-> InternalServerError]
    ELSE [status |-> 200, body |-> result.body]

(* ------------------------------ state --------------------------------- *)
VARIABLES
    pc,        \* where each request is: idle, running, keyed, waiting, responded
    req,       \* each request's route and query string
    frame,     \* the local variables of the handler serving each request
    resp,      \* the responses sent to each request
    obtained,  \* the external results each request obtained (observation)
    app,       \* the module-level state of the process
    entropy    \* the number of draws made from the entropy source

vars == <<pc, req, frame, resp, obtained, app, entropy>>

NoRequest == [route |-> "", args |-> {}]
EmptyFrame == [url |-> <<>>, key |-> ""]
NoOutcome == [raised |-> FALSE, status_code |-> 0, text |-> <<>>, exc |-> ""]
Nothing == [url |-> <<>>, sent |-> FALSE, outcome |-> NoOutcome,
            key |-> "", iv |-> ""]

InitApp == [url_map |-> Routes]

(* ------------------------------ inputs -------------------------------- *)
Templates ==
    {<<"Hello">>, <<"Hello", "\n">>, <<"{{", "7", "*", "7", "}}">>,
     <<"{{", "1", "//", "0", "}}">>, <<"{{", "7">>}
Documents ==
    {<<"Hello">>, <<"[", "a", ",", "b", "]">>, <<"[", "a">>,
     <<"!!python/object/new:", "a">>}
Urls == {InternalUrl, BlackholeUrl, NoSchemeUrl}
Messages == {DefaultMessage, <<"hi">>}

ParamOf(route) ==
    CASE route = "/template" -> "template"
      [] route = "/yaml" -> "data"
      [] route = "/fetch" -> "url"
      [] route = "/encrypt" -> "message"
      [] OTHER -> "q"

Values(route) ==
    CASE route = "/template" -> Templates
      [] route = "/yaml" -> Documents
      [] route = "/fetch" -> Urls
      [] route = "/encrypt" -> Messages
      [] OTHER -> {<<"Hello">>, <<"{{", "7">>}

\* a query string with no parameter, or with the route's parameter
QueryStrings(route) ==
    {{}} \cup {{<<ParamOf(route), v>>} : v \in Values(route)}

(* ------------------------------ actions ------------------------------- *)
Init ==
    /\ pc = [r \in Requests |-> "idle"]
    /\ req = [r \in Requests |-> NoRequest]
    /\ frame = [r \in Requests |-> EmptyFrame]
    /\ resp = [r \in Requests |-> <<>>]
    /\ obtained = [r \in Requests |-> Nothing]
    /\ app = InitApp
    /\ entropy = 0

\* a client sends GET route?query and the router finds the handler
Arrive(r) ==
    /\ pc[r] = "idle"
    /\ \E route \in app.url_map :
         \E args \in QueryStrings(route) :
            req' = [req EXCEPT ![r] = [route |-> route, args |-> args]]
    /\ pc' = [pc EXCEPT ![r] = "running"]
    /\ UNCHANGED <<frame, resp, obtained, app, entropy>>

\* the handler is done: the response is sent and its frame is gone
Respond(r, result) ==
    /\ resp' = [resp EXCEPT ![r] = Append(@, FlaskResponse(result))]
    /\ frame' = [frame EXCEPT ![r] = EmptyFrame]
    /\ app' = result.g
    /\ pc' = [pc EXCEPT ![r] = "responded"]

Home(r) ==
    /\ pc[r] = "running"
    /\ req[r].route = "/"
    /\ Respond(r, home(req[r].args, app))
    /\ UNCHANGED <<req, obtained, entropy>>

Template(r) ==
    /\ pc[r] = "running"
    /\ req[r].route = "/template"
    /\ Respond(r, template_test(req[r].args, app))
    /\ UNCHANGED <<req, obtained, entropy>>

Yaml(r) ==
    /\ pc[r] = "running"
    /\ req[r].route = "/yaml"
    /\ Respond(r, yaml_test(req[r].args, app))
    /\ UNCHANGED <<req, obtained, entropy>>

\* requests.get is called: a URL that cannot be prepared raises at once,
\* any other is sent and the handler blocks
FetchSend(r) ==
    /\ pc[r] = "running"
    /\ req[r].route = "/fetch"
    /\ LET url == fetch_url_target(req[r].args)
       IN  \/ /\ PrepareFails(url)
              /\ obtained' = [obtained EXCEPT ![r].url = url,
                                              ![r].outcome = Failure("MissingSchema")]
              /\ Respond(r, fetch_url(Failure("MissingSchema"), app))
           \/ /\ ~PrepareFails(url)
              /\ obtained' = [obtained EXCEPT ![r].url = url, ![r].sent = TRUE]
              /\ frame' = [frame EXCEPT ![r].url = url]
              /\ pc' = [pc EXCEPT ![r] = "waiting"]
              /\ UNCHANGED <<resp, app>>
    /\ UNCHANGED <<req, entropy>>

\* the GET ends: with a reply, a failure or the timeout
FetchReturn(r) ==
    /\ pc[r] = "waiting"
    /\ \E outcome \in requests_get_outcomes(frame[r].url) :
         /\ obtained' = [obtained EXCEPT ![r].outcome = outcome]
         /\ Respond(r, fetch_url(outcome, app))
    /\ UNCHANGED <<req, entropy>>

\* key = Fernet.generate_key(); cipher = Fernet(key)
EncryptGenKey(r) ==
    /\ pc[r] = "running"
    /\ req[r].route = "/encrypt"
    /\ frame' = [frame EXCEPT ![r].key = generate_key(entropy)]
    /\ obtained' = [obtained EXCEPT ![r].key = generate_key(entropy)]
    /\ entropy' = entropy + 1
    /\ pc' = [pc EXCEPT ![r] = "keyed"]
    /\ UNCHANGED <<req, resp, app>>

\* cipher.encrypt draws the IV; the text of the token is returned
EncryptRespond(r) ==
    /\ pc[r] = "keyed"
    /\ obtained' = [obtained EXCEPT ![r].iv = urandom(entropy)]
    /\ entropy' = entropy + 1
    /\ Respond(r, encrypt_test(req[r].args, frame[r].key, urandom(entropy), app))
    /\ UNCHANGED req

\* the steps the server and the network take for a request
Serve(r) ==
    \/ Home(r)
    \/ Template(r)
    \/ Yaml(r)
    \/ FetchSend(r)
    \/ FetchReturn(r)
    \/ EncryptGenKey(r)
    \/ EncryptRespond(r)

Next == \E r \in Requests : Arrive(r) \/ Serve(r)

Spec == Init /\ [][Next]_vars

\* whether a request ends does not depend on the text it carries: for the
\* behaviours with fairness the clients send one query string per path
\* through the handlers
FewQueryStrings(route) ==
    CASE route = "/template" -> {{}, {<<"template", <<"{{", "7">>>>}}
      [] route = "/fetch" -> {{}, {<<"url", BlackholeUrl>>},
                              {<<"url", NoSchemeUrl>>}}
      [] OTHER -> {{}}

ArriveFew(r) ==
    /\ pc[r] = "idle"
    /\ \E route \in app.url_map :
         \E args \in FewQueryStrings(route) :
            req' = [req EXCEPT ![r] = [route |-> route, args |-> args]]
    /\ pc' = [pc EXCEPT ![r] = "running"]
    /\ UNCHANGED <<frame, resp, obtained, app, entropy>>

NextFew == \E r \in Requests : ArriveFew(r) \/ Serve(r)

\* every handler that can run does run, and every GET that was sent ends
FairSpec ==
    Init /\ [][NextFew]_vars /\ \A r \in Requests : WF_vars(Serve(r))

(* --------------------------- observations ----------------------------- *)
Responded(r) == pc[r] = "responded"
Response(r) == resp[r][1]
RouteOf(r) == req[r].route
NoParams(r) == req[r].args = {}

(* ------------------------------ claims -------------------------------- *)
\* C1: a GET with no query parameters to any of the five routes gets a 200
\* response computed from the default of the route's parameter:
\* 'Hello, World!' rendered, 'message: Hello' parsed, a GET sent to
\* https://httpbin.org/get, 'Secret data' encrypted, the home page.
C1_DefaultsUsed ==
    \A r \in Requests :
        (Responded(r) /\ NoParams(r)) =>
            /\ Response(r).status = 200
            /\ RouteOf(r) = "/" => Response(r).body = HomeHtml
            /\ RouteOf(r) = "/template" =>
                   Response(r).body = <<"Hello, World!">>
            /\ RouteOf(r) = "/yaml" =>
                   Response(r).body =
                       <<"Parsed YAML: ", "{", "'", "message", "'", ": ",
                         "'", "Hello", "'", "}">>
            /\ RouteOf(r) = "/fetch" =>
                   /\ obtained[r].url = <<"https://", "httpbin.org", "/get">>
                   /\ obtained[r].sent
                   /\ Response(r).body = fetch_url(obtained[r].outcome, app).body
            /\ RouteOf(r) = "/encrypt" =>
                   Response(r).body =
                       <<"Encrypted: ",
                         fernet_encrypt(obtained[r].key, obtained[r].iv,
                                        encode(<<"Secret data">>))>>

C1_Witness ==
    \E r1, r2 \in Requests :
        /\ Responded(r1) /\ NoParams(r1) /\ RouteOf(r1) = "/fetch"
        /\ Responded(r2) /\ NoParams(r2) /\ RouteOf(r2) = "/template"

\* C2: whenever loading the data of a /yaml request fails, the response has
\* status 200 and its body is 'Error: ' followed by the failure's message;
\* no /yaml response has another status.
C2_YamlErrorsCaught ==
    \A r \in Requests :
        (Responded(r) /\ RouteOf(r) = "/yaml") =>
            /\ Response(r).status = 200
            /\ LET loaded == yaml_load(ArgsGet(req[r].args, "data", DefaultData))
               IN  loaded.raised =>
                       Response(r).body = <<"Error: ", ExcMessage(loaded.exc)>>

C2_Witness ==
    \E r \in Requests :
        /\ Responded(r) /\ RouteOf(r) = "/yaml"
        /\ req[r].args = {<<"data", <<"[", "a">>>>}
        /\ StartsWith(Response(r).body, <<"Error: ">>)

\* C3: whenever the outbound GET of a /fetch request fails (unpreparable
\* URL, connection error, timeout), the response has status 200 and a body
\* that starts with 'Error: '; no /fetch response has another status.
C3_FetchErrorsCaught ==
    \A r \in Requests :
        (Responded(r) /\ RouteOf(r) = "/fetch") =>
            /\ Response(r).status = 200
            /\ obtained[r].outcome.raised =>
                   StartsWith(Response(r).body, <<"Error: ">>)

C3_Witness ==
    \E r1, r2 \in Requests :
        /\ Responded(r1) /\ RouteOf(r1) = "/fetch"
        /\ obtained[r1].outcome.exc = "ConnectionError"
        /\ Responded(r2) /\ RouteOf(r2) = "/fetch"
        /\ obtained[r2].outcome.exc = "MissingSchema"

\* the GET of request r ended with a reply from the target
GotReply(r) ==
    /\ Responded(r) /\ RouteOf(r) = "/fetch"
    /\ obtained[r].sent /\ ~obtained[r].outcome.raised

\* the text after the 'Content: ' marker is the first min(200, length)
\* characters of the fetched body
ContentIsPrefix(r) ==
    LET text == obtained[r].outcome.text
        content == After(Response(r).body, "<br>Content: ")
    IN  /\ content = SubSeq(text, 1, Min(200, Len(text)))
        /\ Len(content) <= 200

\* C4 as stated: a /fetch whose target replied returns a body that starts
\* with 'Status: 200' and whose content is the first min(200, length)
\* characters of the fetched body.
C4_StatusAlways200 ==
    \A r \in Requests :
        GotReply(r) =>
            /\ StartsWith(Response(r).body, <<"Status: ", "200">>)
            /\ ContentIsPrefix(r)

\* C4 amended: a /fetch whose target replied returns a body that starts
\* with 'Status: ' and the status code of the reply (200 only when the
\* target replied 200), and whose content is the first min(200, length)
\* characters of the fetched body.
C4_StatusOfReply ==
    \A r \in Requests :
        GotReply(r) =>
            /\ Response(r).status = 200
            /\ StartsWith(Response(r).body,
                          <<"Status: ", ToString(obtained[r].outcome.status_code),
                            "<br>Content: ">>)
            /\ obtained[r].outcome.status_code = 200 =>
                   StartsWith(Response(r).body, <<"Status: ", "200">>)
            /\ ContentIsPrefix(r)

C4_Witness ==
    \E r1, r2 \in Requests :
        /\ GotReply(r1)
        /\ obtained[r1].outcome.status_code = 404
        /\ Len(obtained[r1].outcome.text) > 200
        /\ Len(After(Response(r1).body, "<br>Content: ")) = 200
        /\ GotReply(r2)
        /\ obtained[r2].outcome.status_code = 200
        /\ Len(obtained[r2].outcome.text) = 0

MessageOf(r) == ArgsGet(req[r].args, "message", DefaultMessage)

\* C5: two /encrypt calls with the same message return different
\* ciphertexts; every /encrypt response is 'Encrypted: ' followed by the
\* ciphertext and nothing else, the key of the call is not in it, and after
\* the call neither the handler's frame nor the module-level state holds
\* the key.
C5_FreshKeyNeverLeaves ==
    /\ \A r1, r2 \in Requests :
          (/\ r1 /= r2
           /\ Responded(r1) /\ RouteOf(r1) = "/encrypt"
           /\ Responded(r2) /\ RouteOf(r2) = "/encrypt"
           /\ MessageOf(r1) = MessageOf(r2)) =>
              /\ Response(r1).body /= Response(r2).body
              /\ obtained[r1].key /= obtained[r2].key
    /\ \A r \in Requests :
          (Responded(r) /\ RouteOf(r) = "/encrypt") =>
              /\ Response(r).status = 200
              /\ Response(r).body =
                     <<"Encrypted: ",
                       fernet_encrypt(obtained[r].key, obtained[r].iv,
                                      encode(MessageOf(r)))>>
              /\ obtained[r].key /= ""
              /\ ~Contains(Response(r).body, obtained[r].key)
              /\ frame[r].key = ""
              /\ app = InitApp

C5_Witness ==
    \E r1, r2 \in Requests :
        /\ r1 /= r2
        /\ Responded(r1) /\ RouteOf(r1) = "/encrypt"
        /\ Responded(r2) /\ RouteOf(r2) = "/encrypt"
        /\ MessageOf(r1) = MessageOf(r2)

TemplateOf(r) == ArgsGet(req[r].args, "template", DefaultTemplate)

\* C6: when evaluating the template of a /template request fails, the
\* response is the framework's error response with status 500 and no
\* 'Error: ' text; every response whose status is not 200 belongs to
\* /template.
C6_TemplateErrorsPropagate ==
    \A r \in Requests :
        Responded(r) =>
            /\ (RouteOf(r) = "/template"
                /\ render_template_string(TemplateOf(r)).raised) =>
                   /\ Response(r).status = 500
                   /\ Response(r).body = InternalServerError
                   /\ ~Contains(Response(r).body, "Error: ")
            /\ Response(r).status /= 200 => RouteOf(r) = "/template"

C6_Witness ==
    \E r1, r2 \in Requests :
        /\ Responded(r1) /\ RouteOf(r1) = "/template"
        /\ TemplateOf(r1) = <<"{{", "1", "//", "0", "}}">>
        /\ Response(r1).status = 500
        /\ Responded(r2) /\ RouteOf(r2) = "/yaml"
        /\ yaml_load(ArgsGet(req[r2].args, "data", DefaultData)).raised

\* two requests that sent the same thing and obtained the same external
\* results got the same response
SameInSameOut ==
    \A r1, r2 \in Requests :
        (/\ Responded(r1) /\ Responded(r2)
         /\ req[r1] = req[r2]
         /\ obtained[r1] = obtained[r2]) => resp[r1] = resp[r2]

\* C7: the response to a request is determined by the request's own route
\* and parameters and by the external results it obtained itself, whatever
\* was served before or meanwhile, and no step changes the module-level
\* state.
C7_NoSharedState ==
    /\ [](SameInSameOut /\ app = InitApp)
    /\ [][app' = app]_vars

C7_Witness ==
    \E r1, r2 \in Requests :
        /\ r1 /= r2
        /\ Responded(r1) /\ Responded(r2)
        /\ RouteOf(r1) = "/" /\ req[r1] = req[r2]
        /\ obtained[r1] = obtained[r2]

\* C8: every response of / is the same fixed HTML whatever the query
\* string, and that HTML holds a link to each of /template, /yaml, /fetch
\* and /encrypt.
C8_HomeLinksEveryRoute ==
    \A r \in Requests :
        (Responded(r) /\ RouteOf(r) = "/") =>
            /\ Response(r).status = 200
            /\ Response(r).body = HomeHtml
            /\ \A route \in Routes \ {"/"} :
                   Contains(Response(r).body, Link(route))

\* the expression case of C9: the product in delimiters comes back as its
\* value and not as the input
ExpressionEvaluated(r) ==
    TemplateOf(r) = <<"{{", "7", "*", "7", "}}">> =>
        /\ Response(r).status = 200
        /\ Response(r).body = <<"49">>
        /\ Response(r).body /= TemplateOf(r)

====
